---- MODULE Spec2Model ----
(***************************************************************************)
(* State-machine model of the add-on submission client (src/src/index.ts): *)
(* the two promise pipelines submitAddon / submitVersion and the two       *)
(* pollers waitForValidation / waitForApproval with their timers.          *)
(***************************************************************************)
EXTENDS Integers, Sequences, FiniteSets

\* ------------------------------------------------------------------ bounds
\* Largest number of detail fetches one poller invocation issues in a run.
MaxPolls == 3

\* ------------------------------------------------------------ JS values
\* The value of a missing property (JavaScript undefined).
Absent == "undefined"

\* JavaScript truthiness of a string-or-undefined value.
Truthy(x) == x # Absent /\ x # ""

\* String(x) as used by `new Error(x)`: a string is kept, undefined gives an
\* empty message, any object gives "[object Object]".
StringOf(data) ==
    IF data.type = "string" THEN data.text
    ELSE IF data.type = "null" THEN "null"
    ELSE "[object Object]"

\* new Error(message) for a string-or-undefined message.
NewError(x) == <<"Error", IF x = Absent THEN "" ELSE x>>

\* The TypeError thrown by a property access on null/undefined.
TypeError == <<"TypeError", "Cannot read properties">>

\* Response.ok of node-fetch: status in 200..299.
OkMutBelow400(response) == response.status >= 100 /\ response.status < 400
Ok(response) == response.status >= 200 /\ response.status < 300

\* ------------------------------------------------------------ promises
Pending == [state |-> "pending", value |-> <<>>]

ResolveMutLastWins(promise, v) == [state |-> "fulfilled", value |-> v]

\* resolve(v) / reject(e) of a promise executor: only the first call settles.
Resolve(promise, v) ==
    IF promise.state = "pending" THEN [state |-> "fulfilled", value |-> v]
    ELSE promise

RejectMutLastWins(promise, e) == [state |-> "rejected", value |-> e]
Reject(promise, e) ==
    IF promise.state = "pending" THEN [state |-> "rejected", value |-> e]
    ELSE promise

\* clearTimeout(handle) on the abort timer of a poller.
ClearTimeout(t) == IF t = "pending" THEN "cleared" ELSE t

\* ------------------------------------------------- what the service sends
StatusText(s) ==
    CASE s = 200 -> "OK"
      [] s = 404 -> "Not Found"
      [] s = 500 -> "Internal Server Error"
      [] OTHER   -> ""

\* Status codes the service may answer with (one per class getJson and
\* Response.ok tell apart, and the edges of those classes).
Statuses == {99, 100, 200, 299, 300, 399, 400, 404, 499, 500}
DetailStatuses == {200, 404, 500}

\* Bodies of the upload response.  type "unparsable": response.json() throws.
UploadBodies ==
    {[type |-> "object", uuid |-> u, text |-> ""] : u \in {"abc", "", Absent}}
    \cup {[type |-> "string", uuid |-> Absent, text |-> "oops"],
          [type |-> "null", uuid |-> Absent, text |-> ""],
          [type |-> "unparsable", uuid |-> Absent, text |-> ""]}

\* Bodies of the upload detail record polled by waitForValidation.
ValidationBodies ==
    {[type |-> "object", processed |-> p, valid |-> v, uuid |-> u, url |-> r] :
        p \in BOOLEAN, v \in BOOLEAN, u \in {"abc", "def", Absent},
        r \in {"report", Absent}}
    \cup {[type |-> t, processed |-> FALSE, valid |-> FALSE, uuid |-> Absent,
           url |-> Absent] : t \in {"null", "unparsable"}}

\* Bodies of the metadata-submit response (add-on record / version record).
SubmitBodies ==
    {[type |-> "object", slug |-> s, id |-> i] :
        s \in {"my-addon", Absent}, i \in {"42", Absent}}
    \cup {[type |-> t, slug |-> Absent, id |-> Absent] :
            t \in {"null", "unparsable"}}

\* A file sub-record of a detail record; exists = FALSE when the record has
\* none (reading its status then throws).
NoFile == [exists |-> FALSE, status |-> Absent, url |-> Absent]
FileSlots(u) ==
    {[exists |-> TRUE, status |-> "unreviewed", url |-> u],
     [exists |-> TRUE, status |-> "public", url |-> u],
     [exists |-> TRUE, status |-> "public", url |-> Absent],
     NoFile}

\* Bodies of the add-on / version detail record polled by waitForApproval.
\* current_version and latest_unlisted_version hold the `file` of that
\* sub-record (Absent: the sub-record or its file is missing).
ApprovalBodies ==
    {[type |-> "object", current_version |-> c, latest_unlisted_version |-> l,
      file |-> f] : c \in FileSlots("listed.xpi"),
                    l \in FileSlots("unlisted.xpi"),
                    f \in FileSlots("version.xpi")}
    \cup {[type |-> t, current_version |-> NoFile,
           latest_unlisted_version |-> NoFile, file |-> NoFile] :
            t \in {"null", "unparsable"}}

\* Bodies of the download response: a byte stream, or no body.
DownloadBodies == {"signed-xpi", Absent}

Responses(statuses, bodies) ==
    {[status |-> s, statusText |-> StatusText(s), body |-> b] :
        s \in statuses, b \in bodies}

\* What each endpoint may answer.
UploadResponses == Responses(Statuses, UploadBodies)
ValidationResponses == Responses(DetailStatuses, ValidationBodies)
SubmitResponses == Responses(Statuses, SubmitBodies)
ApprovalResponses == Responses(DetailStatuses, ApprovalBodies)
DownloadStatuses == {200, 404}
DownloadResponses == Responses(DownloadStatuses, DownloadBodies)

\* The error a rejected fetch() carries (network failure).
FetchError == <<"FetchError", "request failed">>

\* ------------------------------------------------------------- state
VARIABLES
    workflow,   \* "none" | "addon" (submitAddon) | "version" (submitVersion)
    channel,    \* "listed" | "unlisted"
    stage,      \* 0 idle, 1..9 the stage of the promise chain, 10 done
    at,         \* "call": handler queued, "await": stage pending,
                \* "never": stage promise can no longer settle,
                \* "failed": chain rejected, "done"
    arg,        \* the value the previous stage resolved with
    result,     \* the promise submitAddon / submitVersion returns
    order,      \* the stages started so far, in order
    wv,         \* state of the waitForValidation invocation
    wa,         \* state of the waitForApproval invocation
    requests,   \* calls of Client.fetch, per kind of request
    tokens,     \* tokens signed so far
    auth,       \* the token each request sent carried, in order of sending
    issued,     \* <<kind, id>> of every request built
    logs,       \* what was given to logger.log besides the URLs
    disk        \* content of <downloadDir>/the.xpi

pipeline == <<workflow, channel, stage, at, arg, result, order>>
net == <<requests, tokens, auth, issued>>
vars == <<workflow, channel, stage, at, arg, result, order, wv, wa,
          requests, tokens, auth, issued, logs, disk>>

Kinds == {"upload", "upload-detail", "submit", "detail", "download"}

NoData == [type |-> "none"]

\* A poller that has not been invoked.
\*   promise       the promise the poller returns ("none" before the call)
\*   abortTimeout  "unset" | "pending" | "fired" | "cleared"
\*   checkTimeout  validationCheckTimeout / approvalCheckTimeout: the handle
\*                 of the last poll timer set (0: undefined); handles count
\*                 the reschedules
\*   timers        handles of the poll timers still pending
\*   calls         the poll invocations suspended at an await
\*   fetches       detail fetches issued
\*   inProgress    responses handled that led to a reschedule
\*   nonOk         some detail response was not ok
\*   detailUrl     the identifier the detail URL was built from
IdlePoller ==
    [promise |-> [state |-> "none", value |-> <<>>],
     abortTimeout |-> "unset",
     checkTimeout |-> 0,
     timers |-> {},
     calls |-> {},
     fetches |-> 0,
     inProgress |-> 0,
     nonOk |-> FALSE,
     detailUrl |-> Absent]

Init ==
    /\ workflow = "none"
    /\ channel = "none"
    /\ stage = 0
    /\ at = "call"
    /\ arg = NoData
    /\ result = Pending
    /\ order = <<>>
    /\ wv = IdlePoller
    /\ wa = IdlePoller
    /\ requests = [k \in Kinds |-> 0]
    /\ tokens = 0
    /\ auth = <<>>
    /\ issued = {}
    /\ logs = {}
    /\ disk = "old-xpi"

\* ------------------------------------------------- the promise chain
\* A stage's handler is entered: the stage has started.
Start == order' = Append(order, stage)

\* The stage's promise is pending on something external.
Await(v) ==
    /\ at' = "await"
    /\ arg' = v
    /\ UNCHANGED <<workflow, channel, stage, result>>

\* The stage's promise resolved with v: `.then` queues the next handler.
Advance(v) ==
    /\ stage' = stage + 1
    /\ at' = "call"
    /\ arg' = v
    /\ UNCHANGED <<workflow, channel, result>>

\* The stage's promise rejected with e: every later `.then` is skipped and
\* the promise the workflow returned rejects with e.
Fail(e) ==
    /\ at' = "failed"
    /\ result' = Reject(result, e)
    /\ UNCHANGED <<workflow, channel, stage, arg>>

FetchMutKeepsToken(kind, id) ==
    /\ tokens' = IF tokens = 0 THEN 1 ELSE tokens
    /\ auth' = Append(auth, tokens')
    /\ requests' = [requests EXCEPT ![kind] = @ + 1]
    /\ issued' = issued \cup {<<kind, id>>}

\* Client.fetch: sign a token, then hand the request, with that token in its
\* Authorization header, to node-fetch.
Fetch(kind, id) ==
    /\ tokens' = tokens + 1
    /\ auth' = Append(auth, tokens')
    /\ requests' = [requests EXCEPT ![kind] = @ + 1]
    /\ issued' = issued \cup {<<kind, id>>}

\* Stage 1: submitAddon / submitVersion call doUploadSubmit.  fileFromSync
\* throws when the xpi cannot be read, before any request is built.
DoUploadSubmit(readable) ==
    /\ order' = Append(order, 1)
    /\ IF readable
       THEN /\ Fetch("upload", channel')
            /\ at' = "await"
            /\ UNCHANGED result
       ELSE /\ at' = "failed"
            /\ result' = Reject(result, <<"Error", "ENOENT">>)
            /\ UNCHANGED net
    /\ stage' = 1
    /\ UNCHANGED <<arg, wv, wa, logs, disk>>

SubmitAddon(xpiReadable, ch) ==
    /\ stage = 0
    /\ workflow' = "addon"
    /\ channel' = ch
    /\ DoUploadSubmit(xpiReadable)

SubmitVersion(xpiReadable, ch) ==
    /\ stage = 0
    /\ workflow' = "version"
    /\ channel' = ch
    /\ DoUploadSubmit(xpiReadable)

\* What the request a stage issued may be answered with; node-fetch rejects
\* a request whose URL is undefined without sending it.
ResponsesOf(s) ==
    CASE s = 1 -> UploadResponses
      [] s = 4 -> SubmitResponses
      [] s = 8 -> IF arg = Absent THEN {} ELSE DownloadResponses

\* The promise of the fetch issued by stage 1, 4 or 8 settles.
FetchSettles(s) ==
    /\ stage = s
    /\ at = "await"
    /\ \/ Fail(FetchError)
       \/ \E r \in ResponsesOf(s) : Advance(r)
    /\ UNCHANGED <<order, wv, wa, net, logs, disk>>

UploadResponse == FetchSettles(1)

\* Stages 2 and 5: getJson, up to its await.
GetJsonStatus(response) == response.status < 100 \/ response.status >= 500

GetJson ==
    /\ stage \in {2, 5}
    /\ at = "call"
    /\ Start
    /\ IF GetJsonStatus(arg)
       THEN Fail(<<"Error", "Getting response failed: ", arg.statusText>>)
       ELSE Await(arg)
    /\ UNCHANGED <<wv, wa, net, logs, disk>>

\* getJson after `await response.json()`.  The executor is an async
\* function: when json() throws, nothing settles the promise.
GetJsonParsed ==
    /\ stage \in {2, 5}
    /\ at = "await"
    /\ LET data == arg.body
       IN  IF data.type = "unparsable"
           THEN /\ at' = "never"
                /\ UNCHANGED <<workflow, channel, stage, arg, result, logs>>
           ELSE IF ~Ok(arg)
           THEN /\ logs' = logs \cup {<<"getJson", stage>>}
                /\ Fail(<<"Error", "Bad Request">>)
           ELSE /\ Advance(data)
                /\ UNCHANGED logs
    /\ UNCHANGED <<order, wv, wa, net, disk>>

ThenMutAdvanceOnReject(old, new) ==
    IF old.state = "pending" /\ new.state # "pending"
    THEN Advance(new.value[1])
    ELSE UNCHANGED <<workflow, channel, stage, at, arg, result>>

\* `.then` on the promise a poller returned: the chain moves only when that
\* promise goes from pending to settled.
Then(old, new) ==
    IF old.state = "pending" /\ new.state = "fulfilled"
    THEN Advance(new.value[1])
    ELSE IF old.state = "pending" /\ new.state = "rejected"
    THEN Fail(new.value)
    ELSE UNCHANGED <<workflow, channel, stage, at, arg, result>>

\* ------------------------------------------------- waitForValidation
\* A poll invocation (pollValidationStatus / pollApprovalStatus) calls
\* this.fetch and suspends at `await this.fetch(...)`.
PollStatus(p) ==
    [p EXCEPT !.fetches = @ + 1,
              !.calls = @ \cup {[id |-> p.fetches + 1, at |-> "fetch",
                                 ok |-> TRUE, data |-> NoData]}]

UuidMissingMutEmptyAccepted(data) == data.uuid = Absent
\* `!data.uuid`
UuidMissing(data) == ~Truthy(data.uuid)

\* Stage 3: the executor of the promise waitForValidation returns.
WaitForValidation ==
    /\ stage = 3
    /\ at = "call"
    /\ Start
    /\ IF arg.type = "null"
       THEN /\ wv' = [wv EXCEPT !.promise = Reject(Pending, TypeError)]
            /\ Fail(TypeError)
            /\ UNCHANGED net
       ELSE IF UuidMissing(arg)
       THEN /\ wv' = [wv EXCEPT
                        !.promise = Reject(Pending, NewError(StringOf(arg)))]
            /\ Fail(NewError(StringOf(arg)))
            /\ UNCHANGED net
       ELSE /\ wv' = PollStatus([wv EXCEPT !.promise = Pending,
                                           !.abortTimeout = "pending",
                                           !.detailUrl = arg.uuid])
            /\ Fetch("upload-detail", arg.uuid)
            /\ Await(arg)
    /\ UNCHANGED <<wa, logs, disk>>

AbortValidationMutOnlyCancels(p) ==
    [p EXCEPT !.abortTimeout = "fired",
              !.timers = @ \ {p.checkTimeout}]

\* The abort timer's callback.
AbortValidation(p) ==
    [p EXCEPT !.abortTimeout = "fired",
              !.timers = @ \ {p.checkTimeout},
              !.promise = Reject(@, NewError("Validation Timeout."))]

ValidationAbortTimeout ==
    /\ wv.abortTimeout = "pending"
    /\ wv' = AbortValidation(wv)
    /\ Then(wv.promise, wv'.promise)
    /\ UNCHANGED <<order, wa, net, logs, disk>>

\* A poll timer fires: pollValidationStatus runs again.
ValidationCheckTimeout(h) ==
    /\ h \in wv.timers
    /\ wv' = PollStatus([wv EXCEPT !.timers = @ \ {h}])
    /\ Fetch("upload-detail", wv.detailUrl)
    /\ UNCHANGED <<pipeline, wa, logs, disk>>

\* The catch block of a poll invocation.
Catch(p, c, err) ==
    [p EXCEPT !.calls = @ \ {c},
              !.abortTimeout = ClearTimeout(@),
              !.promise = Reject(@, err)]

ValidationNotOkMutRetries(p, c, r) ==
    [p EXCEPT !.calls = (@ \ {c}) \cup
                        {[c EXCEPT !.at = "json", !.ok = FALSE, !.data = r.body]},
              !.nonOk = TRUE,
              !.checkTimeout = @ + 1,
              !.timers = @ \cup {p.checkTimeout + 1},
              !.promise = Reject(@, <<"Error", "Getting upload details failed: ",
                                      r.statusText, ".">>)]

\* pollValidationStatus after `await this.fetch(...)`: the not-ok test.
ValidationNotOk(p, c, r) ==
    [p EXCEPT !.calls = (@ \ {c}) \cup
                        {[c EXCEPT !.at = "json", !.ok = FALSE, !.data = r.body]},
              !.nonOk = TRUE,
              !.promise = Reject(@, <<"Error", "Getting upload details failed: ",
                                      r.statusText, ".">>)]

PollValidationStatusResponse(c) ==
    /\ c \in wv.calls
    /\ c.at = "fetch"
    /\ \/ wv' = Catch(wv, c, FetchError)
       \/ \E r \in ValidationResponses :
            \* the service answers "still in progress" a bounded number of times
            /\ (r.body.type = "object" /\ ~r.body.processed) => wv.fetches < MaxPolls
            /\ wv' = IF ~Ok(r)
                     THEN ValidationNotOk(wv, c, r)
                     ELSE [wv EXCEPT !.calls = (@ \ {c}) \cup
                              {[c EXCEPT !.at = "json", !.data = r.body]}]
    /\ Then(wv.promise, wv'.promise)
    /\ UNCHANGED <<order, wa, net, logs, disk>>

OnValidMutUploadUuid(p, data) ==
    [p EXCEPT !.promise = Resolve(@, <<p.detailUrl>>)]

\* processed and valid
OnValid(p, data) ==
    [p EXCEPT !.promise = Resolve(@, <<data.uuid>>)]

OnInvalidMutNoClear(p, data) ==
    [p EXCEPT !.promise = Reject(@, NewError(data.url))]

\* processed and not valid
OnInvalid(p, data) ==
    [p EXCEPT !.abortTimeout = ClearTimeout(@),
              !.promise = Reject(@, NewError(data.url))]

\* not yet processed / not yet public: set the next poll timer
Reschedule(p) ==
    [p EXCEPT !.checkTimeout = @ + 1,
              !.timers = @ \cup {p.checkTimeout + 1},
              !.inProgress = @ + 1]

\* pollValidationStatus after `await detailResponse.json()`.
ValidationJson(p, c) ==
    LET data == c.data
        q == [p EXCEPT !.calls = @ \ {c}]
    IN  IF data.type = "unparsable" THEN Catch(q, c, <<"SyntaxError", "json">>)
        ELSE IF data.type = "null" THEN Catch(q, c, TypeError)
        ELSE IF data.processed
        THEN IF data.valid THEN OnValid(q, data) ELSE OnInvalid(q, data)
        ELSE Reschedule(q)

PollValidationStatusJson(c) ==
    /\ c \in wv.calls
    /\ c.at = "json"
    /\ wv' = ValidationJson(wv, c)
    /\ logs' = IF c.data.type = "object" /\ c.data.processed
               THEN logs \cup {<<"Validation results:">>} \cup
                    (IF c.data.valid THEN {} ELSE {<<"Validation failed.">>})
               ELSE logs
    /\ Then(wv.promise, wv'.promise)
    /\ UNCHANGED <<order, wa, net, disk>>

\* ------------------------------------------------- metadata submit
\* Stage 4: doNewAddonSubmit / doNewVersionSubmit, bound by `.then` to the
\* identifier waitForValidation resolved with.
DoNewAddonSubmit ==
    /\ stage = 4
    /\ at = "call"
    /\ workflow = "addon"
    /\ Start
    /\ Fetch("submit", arg)
    /\ Await(arg)
    /\ UNCHANGED <<wv, wa, logs, disk>>

DoNewVersionSubmit ==
    /\ stage = 4
    /\ at = "call"
    /\ workflow = "version"
    /\ Start
    /\ Fetch("submit", arg)
    /\ Await(arg)
    /\ UNCHANGED <<wv, wa, logs, disk>>

SubmitResponse == FetchSettles(4)

\* Stage 6: getDetailUrl of the workflow; `${x}` of a missing field renders
\* as "undefined".
DetailUrlOf(data) == IF workflow = "addon" THEN data.slug ELSE data.id

GetDetailUrl ==
    /\ stage = 6
    /\ at = "call"
    /\ Start
    /\ IF arg.type = "null" THEN Fail(TypeError) ELSE Advance(DetailUrlOf(arg))
    /\ UNCHANGED <<wv, wa, net, logs, disk>>

\* ------------------------------------------------- waitForApproval
ExtractFileFromDataMutIgnoresChannel(data) ==
    IF workflow = "addon" THEN data.current_version ELSE data.file

\* extractFileFromData of the workflow.
ExtractFileFromData(data) ==
    IF workflow = "addon"
    THEN IF channel = "listed" THEN data.current_version
                               ELSE data.latest_unlisted_version
    ELSE data.file

\* Stage 7: the executor of the promise waitForApproval returns.
WaitForApproval ==
    /\ stage = 7
    /\ at = "call"
    /\ Start
    /\ wa' = PollStatus([wa EXCEPT !.promise = Pending,
                                   !.abortTimeout = "pending",
                                   !.detailUrl = arg])
    /\ Fetch("detail", arg)
    /\ Await(arg)
    /\ UNCHANGED <<wv, logs, disk>>

AbortApprovalMutWrongError(p) ==
    [p EXCEPT !.abortTimeout = "fired",
              !.timers = @ \ {p.checkTimeout},
              !.promise = Reject(@, NewError("Validation Timeout."))]

\* The abort timer's callback.
AbortApproval(p) ==
    [p EXCEPT !.abortTimeout = "fired",
              !.timers = @ \ {p.checkTimeout},
              !.promise = Reject(@, NewError("Approval Timeout."))]

ApprovalAbortTimeout ==
    /\ wa.abortTimeout = "pending"
    /\ wa' = AbortApproval(wa)
    /\ Then(wa.promise, wa'.promise)
    /\ UNCHANGED <<order, wv, net, logs, disk>>

\* A poll timer fires: pollApprovalStatus runs again.
ApprovalCheckTimeout(h) ==
    /\ h \in wa.timers
    /\ wa' = PollStatus([wa EXCEPT !.timers = @ \ {h}])
    /\ Fetch("detail", wa.detailUrl)
    /\ UNCHANGED <<pipeline, wv, logs, disk>>

\* pollApprovalStatus after `await this.fetch(...)`: the not-ok test returns.
ApprovalNotOk(p, c, r) ==
    [p EXCEPT !.calls = @ \ {c},
              !.nonOk = TRUE,
              !.promise = Reject(@, NewError("Getting addon details failed."))]

\* Whether a detail body makes pollApprovalStatus set another poll timer.
NotYetPublic(data) ==
    /\ data.type = "object"
    /\ ExtractFileFromData(data).exists
    /\ ExtractFileFromData(data).status # "public"

PollApprovalStatusResponse(c) ==
    /\ c \in wa.calls
    /\ c.at = "fetch"
    /\ \/ wa' = Catch(wa, c, FetchError)
       \/ \E r \in ApprovalResponses :
            \* the service answers "not yet public" a bounded number of times
            /\ NotYetPublic(r.body) => wa.fetches < MaxPolls
            /\ wa' = IF ~Ok(r)
                     THEN ApprovalNotOk(wa, c, r)
                     ELSE [wa EXCEPT !.calls = (@ \ {c}) \cup
                              {[c EXCEPT !.at = "json", !.data = r.body]}]
    /\ Then(wa.promise, wa'.promise)
    /\ UNCHANGED <<order, wv, net, logs, disk>>

OnPublicMutFallsThrough(p, file) ==
    Reschedule([p EXCEPT !.promise = Resolve(@, <<file.url>>)])

\* status === "public"
OnPublic(p, file) ==
    [p EXCEPT !.promise = Resolve(@, <<file.url>>)]

\* pollApprovalStatus after `await detailResponse.json()`.
ApprovalJson(p, c) ==
    LET data == c.data
        q == [p EXCEPT !.calls = @ \ {c}]
    IN  IF data.type = "unparsable" THEN Catch(q, c, <<"SyntaxError", "json">>)
        ELSE IF data.type = "null" THEN Catch(q, c, TypeError)
        ELSE IF ~ExtractFileFromData(data).exists THEN Catch(q, c, TypeError)
        ELSE IF ExtractFileFromData(data).status = "public"
        THEN OnPublic(q, ExtractFileFromData(data))
        ELSE Reschedule(q)

PollApprovalStatusJson(c) ==
    /\ c \in wa.calls
    /\ c.at = "json"
    /\ wa' = ApprovalJson(wa, c)
    /\ Then(wa.promise, wa'.promise)
    /\ UNCHANGED <<order, wv, net, logs, disk>>

\* ------------------------------------------------- download and save
\* Stage 8: this.fetch bound by `.then` to the URL waitForApproval resolved
\* with.
Download ==
    /\ stage = 8
    /\ at = "call"
    /\ Start
    /\ Fetch("download", arg)
    /\ Await(arg)
    /\ UNCHANGED <<wv, wa, logs, disk>>

DownloadResponse == FetchSettles(8)

\* saveFile's precondition test: `!response.ok || !response.body`.
SaveFileRefusesMutOkOnly(response) == ~Ok(response)
SaveFileRefuses(response) == ~Ok(response) \/ response.body = Absent

\* Stage 9: saveFile up to the pipeline it starts.
SaveFile ==
    /\ stage = 9
    /\ at = "call"
    /\ Start
    /\ IF SaveFileRefuses(arg)
       THEN Fail(<<"Error", "Download of signed xpi failed: ", arg.statusText, ".">>)
       ELSE Await(arg)
    /\ UNCHANGED <<wv, wa, net, logs, disk>>

\* The stream pipeline into createWriteStream(dest) ends: the file holds the
\* body, or an I/O error left it unopened or partly written.
SaveFileDone ==
    /\ stage = 9
    /\ at = "await"
    /\ \/ /\ disk' = arg.body
          /\ stage' = 10
          /\ at' = "done"
          /\ result' = Resolve(result, <<Absent>>)
          /\ UNCHANGED <<workflow, channel, arg>>
       \/ /\ disk' \in {disk, "partial"}
          /\ Fail(<<"Error", "EIO">>)
    /\ UNCHANGED <<order, wv, wa, net, logs>>

Next ==
    \/ \E readable \in BOOLEAN, ch \in {"listed", "unlisted"} :
            SubmitAddon(readable, ch)
    \/ \E readable \in BOOLEAN, ch \in {"listed", "unlisted"} :
            SubmitVersion(readable, ch)
    \/ UploadResponse
    \/ GetJson
    \/ GetJsonParsed
    \/ WaitForValidation
    \/ ValidationAbortTimeout
    \/ \E h \in wv.timers : ValidationCheckTimeout(h)
    \/ \E c \in wv.calls : PollValidationStatusResponse(c)
    \/ \E c \in wv.calls : PollValidationStatusJson(c)
    \/ DoNewAddonSubmit
    \/ DoNewVersionSubmit
    \/ SubmitResponse
    \/ GetDetailUrl
    \/ WaitForApproval
    \/ ApprovalAbortTimeout
    \/ \E h \in wa.timers : ApprovalCheckTimeout(h)
    \/ \E c \in wa.calls : PollApprovalStatusResponse(c)
    \/ \E c \in wa.calls : PollApprovalStatusJson(c)
    \/ Download
    \/ DownloadResponse
    \/ SaveFile
    \/ SaveFileDone

Spec == Init /\ [][Next]_vars

\* The timers of the pollers are timers of the event loop: a pending abort
\* timer does fire.
FairSpec ==
    Spec /\ WF_vars(ValidationAbortTimeout) /\ WF_vars(ApprovalAbortTimeout)

\* ====================================================================
\* Claims
\* ====================================================================
ValidationTimeoutError == NewError("Validation Timeout.")
ApprovalTimeoutError == NewError("Approval Timeout.")

\* C1: once waitForValidation has failed by its abort timer (every detail
\* response so far was ok and none was processed), no detail fetch is issued
\* and no poll timer is set any more, in-flight fetch included.
C1_NoPollAfterAbort ==
    [][(/\ wv.abortTimeout = "fired"
        /\ wv.promise = [state |-> "rejected", value |-> ValidationTimeoutError]
        /\ ~wv.nonOk)
       => (/\ wv'.fetches = wv.fetches
           /\ wv'.checkTimeout = wv.checkTimeout
           /\ requests' = requests)]_vars

\* C2: a poller that resolved on the success condition has cancelled its
\* abort timer: the timer is neither pending nor does its callback run.
C2_AbortCancelledOnSuccess ==
    /\ wv.promise.state = "fulfilled" => wv.abortTimeout = "cleared"
    /\ wa.promise.state = "fulfilled" => wa.abortTimeout = "cleared"

\* C3: after a detail response that was not ok, the poller issues no further
\* detail fetch and sets no further poll timer, whatever the body says.
C3_NonOkNotRetried ==
    [][/\ wv.nonOk => (wv'.fetches = wv.fetches /\ wv'.checkTimeout = wv.checkTimeout)
       /\ wa.nonOk => (wa'.fetches = wa.fetches /\ wa'.checkTimeout = wa.checkTimeout)
      ]_vars

\* waitForValidation has been called with a body that has no usable uuid.
C4_CalledWithoutUuid ==
    /\ stage = 3
    /\ at # "call"
    /\ arg.type \in {"object", "string"}
    /\ ~Truthy(arg.uuid)

\* C4: called with a body whose uuid is absent or empty, waitForValidation
\* rejects at once with an Error made from the body, and issues no detail
\* fetch, starts no abort timer and sets no poll timer.
C4_MissingUuidRejects ==
    C4_CalledWithoutUuid =>
        /\ wv.promise = [state |-> "rejected", value |-> NewError(StringOf(arg))]
        /\ result = wv.promise
        /\ wv.fetches = 0
        /\ wv.calls = {}
        /\ requests["upload-detail"] = 0
        /\ wv.abortTimeout = "unset"
        /\ wv.checkTimeout = 0
        /\ wv.timers = {}

C4_Witness ==
    /\ C4_CalledWithoutUuid
    /\ arg.type = "object"
    /\ arg.uuid = ""
    /\ result.state = "rejected"

\* A poll invocation of poller p that this step resumes after json().
Handled(p, q, c) == c \in p.calls /\ c.at = "json" /\ c \notin q.calls

\* C5 (counts): a waitForValidation that resolved has issued one detail
\* fetch more than it saw processed=false responses, one poll timer per such
\* response, and has nothing outstanding.
C5_Counts ==
    wv.promise.state = "fulfilled" =>
        /\ wv.fetches = wv.inProgress + 1
        /\ wv.checkTimeout = wv.inProgress
        /\ requests["upload-detail"] = wv.fetches
        /\ wv.calls = {}
        /\ wv.timers = {}

\* C5 (outcome): when, after only ok processed=false responses and before
\* the abort timer fires, an ok response says processed and valid,
\* waitForValidation resolves with that response's uuid.
C5_Resolves ==
    \A c \in wv.calls :
        (/\ Handled(wv, wv', c)
         /\ c.ok /\ ~wv.nonOk
         /\ wv.abortTimeout = "pending"
         /\ c.data.type = "object" /\ c.data.processed /\ c.data.valid)
        => /\ wv'.promise = [state |-> "fulfilled", value |-> <<c.data.uuid>>]
           /\ wv'.fetches = wv.inProgress + 1
           /\ result'.state = "pending"

\* C5: n ok processed=false responses, then an ok processed-and-valid one,
\* all before the abort timer: exactly n+1 detail fetches, n reschedules,
\* and the poller resolves with the last response's uuid.
C5_PollsThenResolves == []C5_Counts /\ [][C5_Resolves]_vars

C5_Witness ==
    /\ wv.promise = [state |-> "fulfilled", value |-> <<"abc">>]
    /\ wv.inProgress = 1
    /\ wv.fetches = 2
    /\ wv.detailUrl = "abc"

\* The errors `new Error(detailResponseData.url)` can be.
ValidationFailedErrors == {NewError("report"), NewError(Absent)}

\* C6 (step): an ok processed-and-invalid response handled while the poller
\* is unsettled cancels the abort timer and rejects with Error(url).
C6_Rejects ==
    \A c \in wv.calls :
        (/\ Handled(wv, wv', c)
         /\ c.ok
         /\ wv.promise.state = "pending"
         /\ c.data.type = "object" /\ c.data.processed /\ ~c.data.valid)
        => /\ wv'.promise = [state |-> "rejected", value |-> NewError(c.data.url)]
           /\ wv'.abortTimeout = "cleared"
           /\ result' = wv'.promise

\* C6 (afterwards): a poller that failed this way has no abort timer, no
\* poll timer and no fetch outstanding, so no further poll follows.
C6_NothingLeft ==
    (wv.promise.state = "rejected" /\ wv.promise.value \in ValidationFailedErrors)
    => /\ wv.abortTimeout = "cleared"
       /\ wv.timers = {}
       /\ wv.calls = {}

\* C6: processed=true, valid=false on an unsettled waitForValidation: abort
\* timer cancelled, ValidationFailed with the response's url, no more polls.
C6_InvalidRejectsWithUrl == []C6_NothingLeft /\ [][C6_Rejects]_vars

C6_Witness ==
    /\ wv.promise = [state |-> "rejected", value |-> NewError("report")]
    /\ wv.abortTimeout = "cleared"
    /\ wv.inProgress = 1

\* C7 (step): before the abort timer fires, a response whose extracted file
\* is not public sets exactly one poll timer and settles nothing; the first
\* one that is public resolves with that file's url and leaves no poll.
C7_Step ==
    \A c \in wa.calls :
        (/\ Handled(wa, wa', c)
         /\ wa.abortTimeout = "pending"
         /\ c.data.type = "object"
         /\ ExtractFileFromData(c.data).exists)
        => IF ExtractFileFromData(c.data).status = "public"
           THEN /\ wa'.promise = [state |-> "fulfilled",
                                  value |-> <<ExtractFileFromData(c.data).url>>]
                /\ wa'.timers = {}
                /\ wa'.calls = {}
                /\ wa'.fetches = wa.fetches
           ELSE /\ wa'.promise = Pending
                /\ wa'.timers = {wa'.checkTimeout}
                /\ wa'.checkTimeout = wa.checkTimeout + 1
                /\ wa'.calls = {}
                /\ wa'.fetches = wa.fetches

\* C7 (polls): while waitForApproval is unsettled it has either one fetch
\* outstanding or one poll timer, every fetch after the first came from one
\* poll timer; once resolved, polling has ended.
C7_OnePollPerResponse ==
    /\ wa.promise.state = "pending" =>
        /\ wa.checkTimeout = wa.inProgress
        /\ \/ wa.timers = {} /\ Cardinality(wa.calls) = 1
                             /\ wa.fetches = wa.checkTimeout + 1
           \/ wa.timers = {wa.checkTimeout} /\ wa.calls = {}
                             /\ wa.fetches = wa.checkTimeout
    /\ wa.promise.state = "fulfilled" =>
        /\ wa.fetches = wa.inProgress + 1
        /\ wa.timers = {}
        /\ wa.calls = {}

\* C7: waitForApproval polls once more per not-public response and resolves
\* with the file's url on the first public one.
C7_PollsUntilPublic == []C7_OnePollPerResponse /\ [][C7_Step]_vars

C7_Witness ==
    /\ wa.promise.state = "fulfilled"
    /\ wa.promise.value = <<"unlisted.xpi">>
    /\ wa.inProgress = 2
    /\ wa.abortTimeout = "pending"

\* C8 (step): an abort timer that fires on an unsettled poller rejects it
\* with that poller's timeout error.
C8_Step ==
    /\ (wv.abortTimeout = "pending" /\ wv'.abortTimeout = "fired"
            /\ wv.promise.state = "pending")
       => /\ wv'.promise = [state |-> "rejected", value |-> <<"Error", "Validation Timeout.">>]
          /\ result' = wv'.promise
    /\ (wa.abortTimeout = "pending" /\ wa'.abortTimeout = "fired"
            /\ wa.promise.state = "pending")
       => /\ wa'.promise = [state |-> "rejected", value |-> <<"Error", "Approval Timeout.">>]
          /\ result' = wa'.promise

\* C8: the abort timer firing on an unsettled poller fails it with
\* ValidationTimeout / ApprovalTimeout; as the abort timer does fire, a
\* poller that no poll settles is eventually failed with that error.
C8_TimeoutRejects ==
    /\ [][C8_Step]_vars
    /\ (wv.promise.state = "pending") ~> (wv.promise.state \in {"fulfilled", "rejected"})
    /\ (wa.promise.state = "pending") ~> (wa.promise.state \in {"fulfilled", "rejected"})

C8_Witness ==
    /\ wa.promise = [state |-> "rejected", value |-> ApprovalTimeoutError]
    /\ wa.abortTimeout = "fired"
    /\ wv.promise.state = "fulfilled"
    /\ result = wa.promise

\* The stage of the chain that issues each kind of request.
StageOfKind(k) ==
    CASE k = "upload" -> 1
      [] k = "upload-detail" -> 3
      [] k = "submit" -> 4
      [] k = "detail" -> 7
      [] k = "download" -> 8

\* C9: the stages start in the order 1..9, each once; the metadata submit is
\* sent only after waitForValidation resolved, waitForApproval is entered
\* only after that submit, the download is sent only after waitForApproval
\* resolved, and the file is written only after the download request.
C9_StrictOrder ==
    /\ \A i \in 1..Len(order) : order[i] = i
    /\ Len(order) <= stage
    /\ wv.promise.state # "none" => requests["upload"] = 1
    /\ requests["submit"] > 0 =>
            wv.promise.state = "fulfilled" /\ requests["submit"] = 1
    /\ wa.promise.state # "none" =>
            requests["submit"] = 1 /\ wv.promise.state = "fulfilled"
    /\ requests["download"] > 0 =>
            wa.promise.state = "fulfilled" /\ requests["download"] = 1
    /\ disk # "old-xpi" => requests["download"] = 1

C9_Witness ==
    /\ stage = 10
    /\ order = <<1, 2, 3, 4, 5, 6, 7, 8, 9>>
    /\ workflow = "addon"
    /\ disk = "signed-xpi"
    /\ result.state = "fulfilled"

\* C10 (step): once the workflow's promise has rejected, its result never
\* changes, no stage starts, no request of a later stage is sent, the later
\* poller is not entered and the file is not written.
C10_Step ==
    result.state = "rejected" =>
        /\ result' = result
        /\ order' = order
        /\ stage' = stage
        /\ \A k \in Kinds : StageOfKind(k) > stage => requests'[k] = requests[k]
        /\ stage < 7 => wa' = wa
        /\ disk' = disk

\* C10 (result): the workflow is rejected exactly when a stage failed, with
\* the error that stage failed with first, and nothing of a later stage has
\* happened.
C10_FirstError ==
    /\ result.state = "rejected" <=> at = "failed"
    /\ result.state = "rejected" =>
        /\ Len(order) = stage
        /\ stage = 3 => wv.promise = result
        /\ stage = 7 => wa.promise = result
        /\ stage \in {1, 4, 8} => result.value[1] \in {"FetchError", "Error"}
        /\ stage \in {2, 5} =>
                result.value[2] \in {"Getting response failed: ", "Bad Request"}
        /\ stage = 6 => result.value = TypeError
        /\ stage = 9 =>
                result.value[2] \in {"Download of signed xpi failed: ", "EIO"}
        /\ \A k \in Kinds : StageOfKind(k) > stage => requests[k] = 0
        /\ stage < 7 => wa = IdlePoller
        /\ stage < 9 => disk = "old-xpi"

\* C10: the workflows are fail-fast: after the first failing stage nothing of
\* a later stage happens, no stage is re-run, and the result is that stage's
\* first error.
C10_FailFast == []C10_FirstError /\ [][C10_Step]_vars

C10_Witness ==
    /\ result = [state |-> "rejected", value |-> ValidationTimeoutError]
    /\ stage = 3
    /\ wv.nonOk
    /\ wv.fetches = 2
    /\ wv.abortTimeout = "fired"

\* ------------------------------------------------------------------ C11
\* The stages that consume an identifier a previous stage resolved with:
\* the submit request (upload uuid), waitForApproval's detail URL (slug or
\* id) and the download (file url).
ConsumingKinds == {"submit", "detail", "download"}

\* C11: an identifier a later stage consumes is present in the response it
\* is read from, or the run fails there: no submit, detail or download
\* request is built from a missing value, and no consuming stage is entered
\* with one.
C11_NoRequestFromMissing ==
    /\ \A k \in ConsumingKinds : <<k, Absent>> \notin issued
    /\ stage \in {4, 7, 8} /\ at \in {"call", "await"} => arg # Absent

\* ------------------------------------------------------------------ C12
\* One step of getJson on the response `arg`, by status class.
C12_Step ==
    stage \in {2, 5} /\ at \in {"call", "await"} /\ <<stage, at>>' # <<stage, at>> =>
        IF arg.status < 100 \/ arg.status >= 500
        THEN \* transport failure, body not parsed, nothing logged
             /\ at = "call"
             /\ at' = "failed"
             /\ result'.state = "rejected"
             /\ result'.value[2] = "Getting response failed: "
             /\ logs' = logs
        ELSE IF at = "call"
        THEN at' = "await" /\ result' = result
        ELSE IF arg.status >= 400
        THEN \* 400..499: parsed body logged, BadRequest
             /\ at' = "failed"
             /\ result' = [state |-> "rejected", value |-> <<"Error", "Bad Request">>]
             /\ <<"getJson", stage>> \in logs'
        ELSE \* 100..399: resolves with the parsed body
             /\ stage' = stage + 1
             /\ at' = "call"
             /\ arg' = arg.body
             /\ result' = result
             /\ logs' = logs

\* C12: getJson has exactly one of three outcomes, determined by the status:
\* below 100 or from 500 it fails with "Getting response failed" without
\* parsing; 400..499 logs the parsed body and fails with "Bad Request";
\* every other status (100..399) resolves with the parsed body.
C12_OutcomeByStatus == [][C12_Step]_vars

\* One step of getJson on the response `arg` as the code has it: what
\* separates "Bad Request" from success is Response.ok (200..299), and the
\* body is parsed before that test.
C12_StepByOk ==
    stage \in {2, 5} /\ at \in {"call", "await"} /\ <<stage, at>>' # <<stage, at>> =>
        IF arg.status < 100 \/ arg.status >= 500
        THEN /\ at = "call"
             /\ at' = "failed"
             /\ result' = [state |-> "rejected",
                           value |-> <<"Error", "Getting response failed: ",
                                       arg.statusText>>]
             /\ logs' = logs
        ELSE IF at = "call"
        THEN at' = "await" /\ result' = result /\ logs' = logs
        ELSE IF arg.body.type = "unparsable"
        THEN \* json() threw: neither logged, resolved nor rejected
             at' = "never" /\ result' = result /\ logs' = logs
        ELSE IF arg.status < 200 \/ arg.status > 299
        THEN /\ at' = "failed"
             /\ result' = [state |-> "rejected", value |-> <<"Error", "Bad Request">>]
             /\ logs' = logs \cup {<<"getJson", stage>>}
        ELSE /\ stage' = stage + 1
             /\ at' = "call"
             /\ arg' = arg.body
             /\ result' = result
             /\ logs' = logs

\* C12 (amended): the outcome of getJson is determined by the status and by
\* whether the body parses: below 100 or from 500 it fails with "Getting
\* response failed" without parsing; otherwise the body is parsed, and once
\* it has parsed a status in 200..299 resolves with the parsed body while
\* every other status (100..199, 300..499) logs it and fails with
\* "Bad Request".
C12_OutcomeByOk == [][C12_StepByOk]_vars

C12_Witness ==
    /\ stage = 5
    /\ at = "failed"
    /\ arg.status = 399
    /\ arg.body.type = "object"
    /\ result = [state |-> "rejected", value |-> <<"Error", "Bad Request">>]
    /\ <<"getJson", 5>> \in logs

\* ------------------------------------------------------------------ C13
\* The call of saveFile on the download response `arg`.
C13_Step ==
    stage = 9 /\ at = "call" /\ <<stage, at>>' # <<stage, at>> =>
        IF arg.status < 200 \/ arg.status > 299 \/ arg.body = Absent
        THEN /\ at' = "failed"
             /\ result' = [state |-> "rejected",
                           value |-> <<"Error", "Download of signed xpi failed: ",
                                       arg.statusText, ".">>]
             /\ disk' = disk
        ELSE /\ at' = "await"
             /\ result' = result
             /\ disk' = disk

C13_Disk ==
    /\ disk # "old-xpi" =>
            /\ stage \in {9, 10}
            /\ at # "call"
            /\ arg.status >= 200 /\ arg.status <= 299
            /\ arg.body # Absent
    /\ stage = 10 => disk = arg.body /\ disk = "signed-xpi"
    /\ stage = 9 /\ at = "failed" /\ result.value[2] # "EIO" =>
            /\ disk = "old-xpi"
            /\ arg.status < 200 \/ arg.status > 299 \/ arg.body = Absent

\* C13: saveFile fails with "Download of signed xpi failed" and leaves the
\* destination file as it was, without starting the write, whenever the
\* response is not ok or has no body; the file is written only for a
\* response that is ok and has a body, and on success holds that body.
C13_SaveOnlyOkBody == []C13_Disk /\ [][C13_Step]_vars

C13_Witness ==
    /\ stage = 9
    /\ at = "failed"
    /\ arg.status = 200
    /\ arg.body = Absent
    /\ disk = "old-xpi"
    /\ result.value[2] = "Download of signed xpi failed: "

\* ------------------------------------------------------------------ C14
\* The poll attempts a poller has outstanding: detail fetches in flight (or
\* being read) and poll timers set.
Outstanding(p) == Cardinality(p.calls) + Cardinality(p.timers)

C14_AtMostOne ==
    /\ Outstanding(wv) <= 1
    /\ Outstanding(wa) <= 1
    /\ Len(SelectSeq(order, LAMBDA s : s = 3)) <= 1
    /\ Len(SelectSeq(order, LAMBDA s : s = 7)) <= 1

\* The abort timer of an invocation is set once: a timer that fired or was
\* cancelled is never set again.
C14_AbortSetOnce ==
    /\ wv'.abortTimeout = "pending" => wv.abortTimeout \in {"unset", "pending"}
    /\ wa'.abortTimeout = "pending" => wa.abortTimeout \in {"unset", "pending"}

\* C14: in every reachable state of waitForValidation and waitForApproval
\* there is at most one outstanding poll attempt (a detail fetch in flight or
\* a poll timer, never both, never two of either) and at most one abort
\* timer.
C14_OnePollOneAbort == []C14_AtMostOne /\ [][C14_AbortSetOnce]_vars

\* The poller goes on polling after its abort timer fired, still with one
\* poll timer and no fetch in flight.
C14_Witness ==
    /\ wv.abortTimeout = "fired"
    /\ wv.fetches = 2
    /\ Cardinality(wv.timers) = 1
    /\ wv.calls = {}

\* ------------------------------------------------------------------ C15
\* The errors a poller fails with when a detail fetch failed: the fetch
\* threw, or its response was not ok.
DetailFetchErrors ==
    {FetchError, NewError("Getting addon details failed.")}
    \cup {<<"Error", "Getting upload details failed: ", StatusText(s), ".">> :
            s \in DetailStatuses}

FailedOnDetailFetch(p) ==
    p.promise.state = "rejected" /\ p.promise.value \in DetailFetchErrors

\* C15: a poller that failed because a detail fetch threw or was answered
\* with a non-ok status has cancelled its abort timer: no abort timer of that
\* invocation is pending once it has failed this way.
C15_AbortCancelledOnFetchFailure ==
    /\ FailedOnDetailFetch(wv) => wv.abortTimeout # "pending"
    /\ FailedOnDetailFetch(wa) => wa.abortTimeout # "pending"

\* ------------------------------------------------------------------ C16
\* The file of a detail record the claim names for a workflow and channel.
ProjectedFile(data) ==
    CASE workflow = "addon" /\ channel = "listed" -> data.current_version
      [] workflow = "addon" /\ channel = "unlisted" -> data.latest_unlisted_version
      [] workflow = "version" -> data.file

\* A poll callback of waitForApproval that has read a detail record decides
\* on the projected file alone: public resolves with its url, not public
\* sets one poll timer and settles nothing, missing throws.
C16_Step ==
    \A c \in wa.calls :
        Handled(wa, wa', c) /\ c.data.type = "object" =>
            LET file == ProjectedFile(c.data)
            IN  /\ ExtractFileFromData(c.data) = file
                /\ file.exists /\ file.status = "public" =>
                        /\ wa.promise.state = "pending" =>
                                wa'.promise = [state |-> "fulfilled",
                                               value |-> <<file.url>>]
                        /\ wa'.timers = wa.timers
                /\ file.exists /\ file.status # "public" =>
                        /\ wa'.promise = wa.promise
                        /\ Cardinality(wa'.timers) = Cardinality(wa.timers) + 1
                /\ ~file.exists =>
                        /\ wa'.promise.state # "fulfilled"
                        /\ wa'.timers = wa.timers

\* C16: the approval extractor returns current_version.file for the add-on
\* workflow on channel "listed", latest_unlisted_version.file on channel
\* "unlisted", and the record's file for the version workflow on either
\* channel; waitForApproval decides on that file and on no other.
C16_ChannelProjection == [][C16_Step]_vars

C16_Witness ==
    /\ workflow = "version"
    /\ channel = "unlisted"
    /\ wa.promise = [state |-> "fulfilled", value |-> <<"version.xpi">>]
    /\ wa.fetches = 1

\* ------------------------------------------------------------------ C17
\* Calls of Client.fetch so far, over all kinds of request.
RequestsIssued ==
    requests["upload"] + requests["upload-detail"] + requests["submit"]
        + requests["detail"] + requests["download"]

\* Every request carries a token of its own, and there is no other token.
C17_OneTokenEach ==
    /\ tokens = RequestsIssued
    /\ Len(auth) = RequestsIssued
    /\ \A i \in 1..Len(auth) : auth[i] = i

\* A request is sent with the token signed in the same call of Client.fetch,
\* and a token is signed only to send a request.
C17_Step ==
    requests' # requests \/ tokens' # tokens \/ auth' # auth =>
        /\ tokens' = tokens + 1
        /\ auth' = Append(auth, tokens')
        /\ \E k \in Kinds : requests' = [requests EXCEPT ![k] = @ + 1]

\* C17: every request made through Client.fetch carries a token signed in
\* that call; no token is kept or attached to a second request, so tokens
\* signed and requests issued are always equal in number.
C17_FreshTokenPerRequest == []C17_OneTokenEach /\ [][C17_Step]_vars

\* A whole run: upload, two validation polls, submit, two approval polls,
\* download.
C17_Witness ==
    /\ stage = 10
    /\ tokens = 7
    /\ auth = <<1, 2, 3, 4, 5, 6, 7>>
    /\ requests["upload-detail"] = 2
    /\ requests["detail"] = 2

\* ------------------------------------------------------------------ C18
Settled(promise) == promise.state \in {"fulfilled", "rejected"}

\* Whatever a settled poller still does (its abort timer fires, a poll
\* response arrives, a later resolve or reject in the same callback), its
\* promise and the chain that observed it stay as they are.
C18_Step ==
    /\ Settled(wv.promise) /\ wv' # wv =>
            wv'.promise = wv.promise /\ UNCHANGED pipeline
    /\ Settled(wa.promise) /\ wa' # wa =>
            wa'.promise = wa.promise /\ UNCHANGED pipeline

\* C18: each poller invocation settles at most once, in whatever order the
\* abort callback and the poll callbacks run: once resolved or rejected, no
\* later timer, response or resolve/reject call changes the outcome.
C18_SettlesOnce == [][C18_Step]_vars

\* waitForValidation rejected on a non-ok response and then read
\* processed=true, valid=true from its body: the resolve call that followed
\* changed nothing.
C18_Witness ==
    /\ wv.promise.state = "rejected"
    /\ wv.promise.value[2] = "Getting upload details failed: "
    /\ wv.nonOk
    /\ wv.fetches = 1
    /\ wv.calls = {}
    /\ wv.timers = {}
    /\ wv.abortTimeout = "pending"

\* ------------------------------------------------------------------ C19
\* A poller whose abort timer is no longer pending has settled.
AbortedOrCancelled(p) == p.abortTimeout \in {"fired", "cleared"}

\* C19: a waitForValidation that was given a non-empty uuid, and every
\* waitForApproval, is settled no later than the step in which its abort
\* timer's callback runs, whatever the service does (a detail fetch may
\* never return): in no reachable state has the abort timer fired or been
\* cancelled while the poller is unsettled; an unsettled poller has its
\* abort timer pending.
C19_SettledByAbort ==
    /\ AbortedOrCancelled(wv) => wv.promise.state \in {"fulfilled", "rejected"}
    /\ AbortedOrCancelled(wa) => wa.promise.state \in {"fulfilled", "rejected"}
    /\ wv.promise.state = "pending" => wv.abortTimeout = "pending"
    /\ wa.promise.state = "pending" => wa.abortTimeout = "pending"

\* The abort timer fired while the first detail fetch had not returned.
C19_Witness ==
    /\ wv.abortTimeout = "fired"
    /\ wv.fetches = 1
    /\ \E c \in wv.calls : c.at = "fetch"
    /\ wv.promise = [state |-> "rejected", value |-> ValidationTimeoutError]
    /\ result = wv.promise

\* ------------------------------------------------------------------ C20
\* C20: getJson always settles: while the promise getJson returned for a
\* response is unsettled, whatever its status and body, the step of getJson
\* that goes on to resolve or reject it can still be taken, so a workflow
\* whose requests all return does not stay in a getJson stage for ever.
C20_GetJsonSettles ==
    stage \in {2, 5} /\ result.state = "pending" =>
        ENABLED GetJson \/ ENABLED GetJsonParsed

====
